---- MODULE Spec2Model ----
(***************************************************************************)
(* Model of the request executor (fetchWithRetry, apiCall) of              *)
(* lib/api-utils and of the two completion pollers built on the backend's  *)
(* GET /generation/status endpoint: Dashboard's waitForGeneration and      *)
(* PersonalizedGenerator's waitForGenerationCompletion.                    *)
(*                                                                         *)
(* JavaScript strings are modelled as sequences of tokens, so that a       *)
(* template literal is a concatenation and two messages are equal only     *)
(* when they were built from the same parts.                               *)
(***************************************************************************)
EXTENDS Integers, Sequences, FiniteSets, TLC

VARIABLES
    maxRetries,   \* fetchWithRetry: the maxRetries argument
    attempt,      \* fetchWithRetry: the loop counter
    fpc,          \* fetchWithRetry: "init", "fetching", "backoff", "returned", "thrown"
    requests,     \* number of fetch() calls issued so far
    waits,        \* the backoff delays taken so far, in order
    warnings,     \* the console.warn events emitted so far, in order
    lastError,    \* fetchWithRetry: the lastError local
    fout,         \* what fetchWithRetry returned (a response) or threw
    hist,         \* the outcome class of every finished attempt, in order
    timers,       \* fetchWithRetry: the attempts whose timeout timer is still armed
    apiResult,    \* the settlement of apiCall's promise
    rbody,        \* the body apiCall read, NoBody while it has read none
    poller,       \* which poller this run exercises: "dashboard" or "generator"
    dpc,          \* waitForGeneration: "off", "check", "body", "wait", "returned", "thrown"
    di,           \* waitForGeneration: the loop counter i
    dchecks,      \* waitForGeneration: status checks performed
    dwaits,       \* waitForGeneration: interval waits performed
    dresult,      \* waitForGeneration: the returned value
    dfirst,       \* waitForGeneration: the number of the first status check that
                  \* reported completion, 0 while none has
    dfailed,      \* waitForGeneration: the latest status check failed
    dfo,          \* waitForGeneration: the response whose body apiCall is reading
    cancelled,    \* Dashboard effect: the cancelled flag of the session
    dstale,       \* a status request was issued after the session was cancelled
    gpc,          \* waitForGenerationCompletion: "off", "check", "body", "wait",
                  \* "returned", "thrown"
    gnow,         \* waitForGenerationCompletion: Date.now() - startTime
    gchecks,      \* waitForGenerationCompletion: status checks performed
    gwaits,       \* waitForGenerationCompletion: interval waits performed
    gresult,      \* waitForGenerationCompletion: the returned value or thrown error
    gfirst,       \* waitForGenerationCompletion: the number of the first status
                  \* check that reported completion, 0 while none has
    gfailed,      \* waitForGenerationCompletion: the latest status check failed
    gfo,          \* waitForGenerationCompletion: the response whose body is read
    canGenerate,  \* PersonalizedGenerator: the form is complete
    user,         \* PersonalizedGenerator: a user is signed in
    uploadedFile, \* PersonalizedGenerator: a curriculum file is selected
    cpc,          \* generatePersonalizedContent: the await it is suspended at
    isGenerating, \* PersonalizedGenerator: the isGenerating state
    toasts,       \* the titles of the toasts shown, in order
    reqs,         \* the requests generatePersonalizedContent issued, in order
    outcomes,     \* how each of these requests ended, in the same order
    generateResult, \* the generateResult local: "none", "null" or "object"
    polled,       \* how waitForGenerationCompletion ended: "none", "completed",
                  \* "timed out"
    content,      \* what setGeneratedContent was last called with, "none" if never
    wasGenerating, \* setIsGenerating(true) has been called
    active,       \* Dashboard: the active state, the tab shown
    mounted,      \* Dashboard: the component is mounted
    pendingEffect, \* Dashboard: active has changed and the effect has not run yet
    sessions,     \* Dashboard: one entry per run of the effect, in order
    files,        \* Dashboard: the files state, a list per tab
    loading,      \* Dashboard: the loading state
    uiError,      \* Dashboard: the error state
    waiting       \* Dashboard: the waiting state

execVars == <<maxRetries, attempt, fpc, requests, waits, warnings, lastError,
              fout, hist, timers, apiResult, rbody>>
dashVars == <<dpc, di, dchecks, dwaits, dresult, dfirst, dfailed, dfo,
              cancelled, dstale>>
genVars  == <<gpc, gnow, gchecks, gwaits, gresult, gfirst, gfailed, gfo>>
pollVars == <<poller, dashVars, genVars>>
flowVars == <<canGenerate, user, uploadedFile, cpc, isGenerating, toasts, reqs,
              outcomes, generateResult, polled, content, wasGenerating>>
uiVars == <<active, mounted, pendingEffect, sessions, files, loading, uiError,
            waiting>>
vars == <<execVars, pollVars, flowVars, uiVars>>

----------------------------------------------------------------------------
(* Bounds of the model.                                                    *)

\* the largest maxRetries a call is made with
MaxN == 6
\* the longest time one status request of the generator's poller takes (ms)
SlowFetch == 3000

----------------------------------------------------------------------------
(* JavaScript values.                                                      *)

Undefined == [t |-> "undefined", s |-> <<>>]
Str(tokens) == [t |-> "string", s |-> tokens]
\* a JSON array: a value that is truthy and not a string
Arr == [t |-> "array", s |-> <<>>]

Truthy(v) == v.t = "array" \/ (v.t = "string" /\ v.s # <<>>)
\* a || b
Or(a, b) == IF Truthy(a) THEN a ELSE b

\* an Error object, and the value `undefined` when it is thrown
Err(name, message) == [isError |-> TRUE, name |-> name, message |-> message]
ThrownUndefined == [isError |-> FALSE, name |-> "", message |-> <<>>]

\* the outcome of evaluating a block: a value returned or a value thrown
Return(v) == [c |-> "return", v |-> v]
Throw(e) == [c |-> "throw", v |-> e]

----------------------------------------------------------------------------
(* HTTP responses.                                                         *)

Statuses == {200, 302, 404, 500}

StatusStr(status) ==
    CASE status = 200 -> "200"
      [] status = 302 -> "302"
      [] status = 404 -> "404"
      [] status = 500 -> "500"

StatusText(status) ==
    CASE status = 200 -> "OK"
      [] status = 302 -> "Found"
      [] status = 404 -> "Not Found"
      [] status = 500 -> "Internal Server Error"

\* ResponseOk with its lower boundary excluded
ResponseOkAbove200(status) == status > 200 /\ status <= 299

\* response.ok
ResponseOk(status) == status >= 200 /\ status <= 299

\* IsClientError testing the 5xx range instead of the 4xx range
IsClientErrorWrongRange(status) == status >= 500 /\ status < 600

\* IsClientError taking in the 3xx range as well
IsClientErrorFrom300(status) == status >= 300 /\ status < 500

\* response.status >= 400 && response.status < 500
IsClientError(status) == status >= 400 /\ status < 500

\* `Server error: ${response.status} ${response.statusText}`
ServerErrorMessage(status) ==
    <<"Server error: ", StatusStr(status), " ", StatusText(status)>>

\* the error a failed attempt leaves in the catch block's `error`
NetworkError == Err("TypeError", <<"Failed to fetch">>)
AbortError == Err("AbortError", <<"The user aborted a request.">>)
ServerError(status) == Err("Error", ServerErrorMessage(status))
TimeoutError == Err("Error", <<"Request timeout">>)

----------------------------------------------------------------------------
(* Response bodies.                                                        *)

\* a parsed JSON document: null, or an object with its detail, message and
\* completed fields (Undefined: the field is absent)
JsonNull == [j |-> "null", detail |-> Undefined, message |-> Undefined,
             completed |-> FALSE]
JsonObject(d, m, c) == [j |-> "object", detail |-> d, message |-> m,
                        completed |-> c]

DetailVals == {Undefined, Str(<<>>), Str(<<"detail text">>), Arr}
MessageVals == {Undefined, Str(<<>>), Str(<<"message text">>), Arr}

JsonDocs == {JsonNull} \cup
            {JsonObject(d, m, c) : d \in DetailVals, m \in MessageVals,
                                   c \in BOOLEAN}

\* a body whose stream fails while it is read, a body that is not JSON
\* (possibly empty), and a body that is a JSON document
BrokenBody == [kind |-> "broken", text |-> <<>>, json |-> JsonNull]
TextBody(t) == [kind |-> "text", text |-> t, json |-> JsonNull]
JsonBody(j) == [kind |-> "json", text |-> <<"json text">>, json |-> j]

\* no body has been read
NoBody == [kind |-> "none", text |-> <<>>, json |-> JsonNull]

Bodies == {BrokenBody} \cup {TextBody(<<>>), TextBody(<<"plain text">>)} \cup
          {JsonBody(j) : j \in JsonDocs}

\* await response.json(): reads the whole body, then parses it
ResponseJson(body) ==
    CASE body.kind = "broken" -> Throw(Err("TypeError", <<"network error">>))
      [] body.kind = "text" ->
            Throw(Err("SyntaxError", <<"Unexpected token in JSON">>))
      [] body.kind = "json" -> Return(body.json)

\* await response.text(); bodyUsed: an earlier read has consumed the body
ResponseText(body, bodyUsed) ==
    IF bodyUsed
    THEN Throw(Err("TypeError", <<"body stream already read">>))
    ELSE IF body.kind = "broken"
         THEN Throw(Err("TypeError", <<"network error">>))
         ELSE Return(Str(body.text))

----------------------------------------------------------------------------
(* fetchWithRetry.                                                         *)

BaseDelay == 1000
MaxDelay == 5000

Min(a, b) == IF a <= b THEN a ELSE b

RECURSIVE Pow2(_)
Pow2(n) == IF n <= 0 THEN 1 ELSE 2 * Pow2(n - 1)

\* BackoffDelay with the exponent one too high
BackoffDelayFromAttempt(a) == Min(BaseDelay * Pow2(a), MaxDelay)

\* Math.min(1000 * Math.pow(2, attempt - 1), 5000)
BackoffDelay(a) == Min(BaseDelay * Pow2(a - 1), MaxDelay)

FNone == [c |-> "none", status |-> 0, error |-> ThrownUndefined]
FReturned(status) == [c |-> "return", status |-> status, error |-> ThrownUndefined]
FThrew(e) == [c |-> "throw", status |-> 0, error |-> e]

\* the entries of hist
GotResponse(status) == [kind |-> "response", status |-> status, timer |-> 0]
GotNetworkFault == [kind |-> "network", status |-> 0, timer |-> 0]
\* the request was aborted by the timer that attempt k armed
GotTimeout(k) == [kind |-> "timeout", status |-> 0, timer |-> k]

\* Controller with one AbortController shared by all attempts
ControllerShared(a) == 1

\* the AbortController that pass a of the loop creates, whose signal the
\* fetch() of attempt a carries and which the timer of attempt a aborts
Controller(a) == a

\* Warning reporting the number of the attempt that comes next
WarningNextAttempt(a, n, e) ==
    [attempt |-> a + 1, maxRetries |-> n, message |-> e.message]

\* console.warn(`API request failed (attempt ${attempt}/${maxRetries}):`, ...)
Warning(a, n, e) == [attempt |-> a, maxRetries |-> n, message |-> e.message]

\* EnterLoop as the header of a do-while loop: the first pass is always made
EnterLoopAtLeastOnce(a, err) ==
    IF a <= maxRetries \/ a = 1
    THEN /\ requests' = requests + 1
         /\ timers' = timers \cup {a}
         /\ fpc' = "fetching"
         /\ fout' = fout
    ELSE /\ requests' = requests
         /\ timers' = timers
         /\ fpc' = "thrown"
         /\ fout' = FThrew(err)

\* the loop header: the test attempt <= maxRetries, then either the next
\* fetch() is issued or the loop is left and lastError is thrown
EnterLoop(a, err) ==
    IF a <= maxRetries
    THEN /\ requests' = requests + 1
         /\ timers' = timers \cup {a}
         /\ fpc' = "fetching"
         /\ fout' = fout
    ELSE /\ requests' = requests
         /\ timers' = timers
         /\ fpc' = "thrown"
         /\ fout' = FThrew(err)

\* CatchBlock giving up one attempt early
CatchBlockOneShort(error) ==
    /\ lastError' = error
    /\ IF error.name = "AbortError"
       THEN /\ fpc' = "thrown"
            /\ fout' = FThrew(TimeoutError)
            /\ waits' = waits
       ELSE IF attempt + 1 >= maxRetries
       THEN /\ fpc' = "thrown"
            /\ fout' = FThrew(error)
            /\ waits' = waits
       ELSE /\ fpc' = "backoff"
            /\ fout' = fout
            /\ waits' = Append(waits, BackoffDelay(attempt))

\* CatchBlock without the test for an abort: a timeout is retried
CatchBlockRetriesAbort(error) ==
    /\ lastError' = error
    /\ IF attempt = maxRetries
       THEN /\ fpc' = "thrown"
            /\ fout' = FThrew(error)
            /\ waits' = waits
       ELSE /\ fpc' = "backoff"
            /\ fout' = fout
            /\ waits' = Append(waits, BackoffDelay(attempt))

\* CatchBlock keeping the error of the first failed attempt in lastError
CatchBlockKeepsFirstError(error) ==
    LET kept == IF lastError.isError THEN lastError ELSE error
    IN  /\ lastError' = kept
        /\ IF error.name = "AbortError"
           THEN /\ fpc' = "thrown"
                /\ fout' = FThrew(TimeoutError)
                /\ waits' = waits
           ELSE IF attempt = maxRetries
           THEN /\ fpc' = "thrown"
                /\ fout' = FThrew(kept)
                /\ waits' = waits
           ELSE /\ fpc' = "backoff"
                /\ fout' = fout
                /\ waits' = Append(waits, BackoffDelay(attempt))

\* the catch block, entered with the error of the current attempt
CatchBlock(error) ==
    /\ lastError' = error
    /\ IF error.name = "AbortError"
       THEN /\ fpc' = "thrown"
            /\ fout' = FThrew(TimeoutError)
            /\ waits' = waits
       ELSE IF attempt = maxRetries
       THEN /\ fpc' = "thrown"
            /\ fout' = FThrew(error)
            /\ waits' = waits
       ELSE /\ fpc' = "backoff"
            /\ fout' = fout
            /\ waits' = Append(waits, BackoffDelay(attempt))

\* fetchWithRetry is called: attempt = 1 and the first pass of the loop header
Call ==
    /\ fpc = "init"
    /\ attempt' = 1
    /\ EnterLoop(1, lastError)
    /\ UNCHANGED <<maxRetries, waits, warnings, lastError, hist, apiResult, rbody, pollVars, flowVars, uiVars>>

\* Respond without the return of a 4xx response: it is retried like a 5xx
RespondRetriesClientError(status) ==
    /\ fpc = "fetching"
    /\ hist' = Append(hist, GotResponse(status))
    /\ timers' = timers \ {attempt}
    /\ IF ResponseOk(status)
       THEN /\ fpc' = "returned"
            /\ fout' = FReturned(status)
            /\ UNCHANGED <<lastError, waits>>
       ELSE CatchBlock(ServerError(status))
    /\ UNCHANGED <<maxRetries, attempt, requests, warnings, apiResult, rbody, pollVars, flowVars, uiVars>>

\* fetch() resolves with a response of the given status
Respond(status) ==
    /\ fpc = "fetching"
    /\ hist' = Append(hist, GotResponse(status))
    /\ timers' = timers \ {attempt}
    /\ IF ResponseOk(status)
       THEN /\ fpc' = "returned"
            /\ fout' = FReturned(status)
            /\ UNCHANGED <<lastError, waits>>
       ELSE IF IsClientError(status)
       THEN /\ fpc' = "returned"
            /\ fout' = FReturned(status)
            /\ UNCHANGED <<lastError, waits>>
       ELSE CatchBlock(ServerError(status))
    /\ UNCHANGED <<maxRetries, attempt, requests, warnings, apiResult, rbody, pollVars, flowVars, uiVars>>

\* fetch() rejects: the transport failed
NetworkFault ==
    /\ fpc = "fetching"
    /\ hist' = Append(hist, GotNetworkFault)
    /\ timers' = timers
    /\ CatchBlock(NetworkError)
    /\ UNCHANGED <<maxRetries, attempt, requests, warnings, apiResult, rbody, pollVars, flowVars, uiVars>>

\* a timeout timer fires while a fetch() is pending: the controller of the
\* attempt that armed the timer is aborted, and the pending fetch() rejects
\* with an AbortError when it carries that controller's signal
Timeout ==
    /\ fpc = "fetching"
    /\ \E k \in timers :
         /\ timers' = timers \ {k}
         /\ IF Controller(k) = Controller(attempt)
            THEN /\ hist' = Append(hist, GotTimeout(k))
                 /\ CatchBlock(AbortError)
            ELSE UNCHANGED <<hist, lastError, fpc, fout, waits>>
    /\ UNCHANGED <<maxRetries, attempt, requests, warnings, apiResult, rbody, pollVars, flowVars, uiVars>>

\* the backoff timer fires: the warning, attempt++ and the loop header
BackoffDone ==
    /\ fpc = "backoff"
    /\ warnings' = Append(warnings, Warning(attempt, maxRetries, lastError))
    /\ attempt' = attempt + 1
    /\ EnterLoop(attempt + 1, lastError)
    /\ UNCHANGED <<maxRetries, waits, lastError, hist, apiResult, rbody, pollVars, flowVars, uiVars>>

----------------------------------------------------------------------------
(* apiCall.                                                                *)

ApiSuccess(data) == [success |-> TRUE, hasData |-> TRUE, data |-> data,
                     hasError |-> FALSE, error |-> Undefined]
ApiFailure(e) == [success |-> FALSE, hasData |-> FALSE, data |-> JsonNull,
                  hasError |-> TRUE, error |-> e]

\* `HTTP ${response.status}: ${response.statusText}`
StatusLine(status) == Str(<<"HTTP ", StatusStr(status), ": ", StatusText(status)>>)

\* the catch of the inner try: the body is read again, as text
ErrorTextFallback(status, body) ==
    LET t == ResponseText(body, TRUE)
    IN  IF t.c = "throw"
        THEN Throw(t.v)
        ELSE Return(ApiFailure(IF Truthy(t.v) THEN t.v ELSE StatusLine(status)))

\* ErrorBranch preferring the message field to the detail field
ErrorBranchMessageFirst(status, body) ==
    LET j == ResponseJson(body)
    IN  IF j.c = "throw"
        THEN ErrorTextFallback(status, body)
        ELSE IF j.v.j = "null"
        THEN ErrorTextFallback(status, body)
        ELSE Return(ApiFailure(Or(Or(j.v.message, j.v.detail), StatusLine(status))))

\* the branch taken for a response that is not ok
ErrorBranch(status, body) ==
    LET j == ResponseJson(body)
    IN  IF j.c = "throw"
        THEN ErrorTextFallback(status, body)
        ELSE IF j.v.j = "null"
        \* reading a property of null throws a TypeError inside the inner try
        THEN ErrorTextFallback(status, body)
        ELSE Return(ApiFailure(Or(Or(j.v.detail, j.v.message), StatusLine(status))))

\* ApiTry taking a body that cannot be parsed for the data null
ApiTryIgnoresParseError(fo, body) ==
    IF fo.c = "throw"
    THEN Throw(fo.error)
    ELSE IF ~ResponseOk(fo.status)
    THEN ErrorBranch(fo.status, body)
    ELSE LET j == ResponseJson(body)
         IN  IF j.c = "throw" THEN Return(ApiSuccess(JsonNull)) ELSE Return(ApiSuccess(j.v))

\* the body of apiCall's outer try
ApiTry(fo, body) ==
    IF fo.c = "throw"
    THEN Throw(fo.error)
    ELSE IF ~ResponseOk(fo.status)
    THEN ErrorBranch(fo.status, body)
    ELSE LET j == ResponseJson(body)
         IN  IF j.c = "throw" THEN Throw(j.v) ELSE Return(ApiSuccess(j.v))

\* ApiCatch rethrowing what it caught
ApiCatchRethrows(error) == Throw(error)

\* apiCall's outer catch
ApiCatch(error) ==
    Return(ApiFailure(IF error.isError
                      THEN Str(error.message)
                      ELSE Str(<<"Unknown error occurred">>)))

\* apiCall, given what fetchWithRetry did and the body the response carries
ApiCall(fo, body) ==
    LET r == ApiTry(fo, body)
    IN  IF r.c = "throw" THEN ApiCatch(r.v) ELSE r

ApiPending == [state |-> "pending", value |-> ApiFailure(Undefined),
               reason |-> ThrownUndefined]
Settle(r) ==
    IF r.c = "return"
    THEN [state |-> "resolved", value |-> r.v, reason |-> ThrownUndefined]
    ELSE [state |-> "rejected", value |-> ApiFailure(Undefined), reason |-> r.v]

\* apiCall resumes after fetchWithRetry and settles its promise
ApiReturn(body) ==
    /\ fpc \in {"returned", "thrown"}
    /\ apiResult.state = "pending"
    /\ apiResult' = Settle(ApiCall(fout, body))
    /\ rbody' = (IF fout.c = "return" THEN body ELSE NoBody)
    /\ UNCHANGED <<maxRetries, attempt, fpc, requests, waits, warnings,
                   lastError, fout, hist, timers, pollVars, flowVars, uiVars>>

----------------------------------------------------------------------------
(* The completion pollers.                                                 *)

\* what a poller's promise settles with
PPending == [c |-> "pending", value |-> FALSE, error |-> ThrownUndefined]
PReturned(b) == [c |-> "return", value |-> b, error |-> ThrownUndefined]
PThrew(e) == [c |-> "throw", value |-> FALSE, error |-> e]

DefaultMaxRetries == 3

\* what fetchWithRetry can do when called with the default maxRetries
FetchOutcomes ==
    {FReturned(s) : s \in {s \in Statuses : ResponseOk(s) \/ IsClientError(s)}} \cup
    {FThrew(ServerError(s)) :
        s \in {s \in Statuses : ~ResponseOk(s) /\ ~IsClientError(s)}} \cup
    {FThrew(NetworkError), FThrew(TimeoutError)}

(* Dashboard: waitForGeneration *)

MaxIterations == 60

\* response.success && response.data?.completed
DashCompleted(r) == r.success /\ r.data.completed

\* what one pass of the loop body does with the settlement of apiCall:
\* "caught" (apiCall threw: the catch around the loop), "completed", "failed"
\* (the status check did not succeed) or "wait" (it succeeded, not completed)
DashPass(r) ==
    IF r.c = "throw"
    THEN "caught"
    ELSE IF DashCompleted(r.v)
    THEN "completed"
    ELSE IF ~r.v.success THEN "failed" ELSE "wait"

\* the passes a status check ends with when fetchWithRetry did fo
DashPasses(fo) == {DashPass(ApiCall(fo, body)) : body \in Bodies}

\* DashOnPass without the return on completion: it waits and polls again
DashOnPassKeepsPolling(pass) ==
    /\ dchecks' = dchecks + 1
    /\ dfo' = FNone
    /\ CASE pass = "caught" ->
                /\ dpc' = "returned"
                /\ dresult' = PReturned(TRUE)
                /\ dfailed' = FALSE
                /\ dfirst' = dfirst
         [] pass = "completed" ->
                /\ dpc' = "wait"
                /\ dresult' = dresult
                /\ dfirst' = (IF dfirst = 0 THEN dchecks + 1 ELSE dfirst)
                /\ dfailed' = FALSE
         [] pass = "failed" ->
                /\ dpc' = "wait"
                /\ dfailed' = TRUE
                /\ UNCHANGED <<dresult, dfirst>>
         [] pass = "wait" ->
                /\ dpc' = "wait"
                /\ dfailed' = FALSE
                /\ UNCHANGED <<dresult, dfirst>>

\* DashOnPass giving up the session when a status check fails
DashOnPassStopsOnFailure(pass) ==
    /\ dchecks' = dchecks + 1
    /\ dfo' = FNone
    /\ CASE pass = "caught" ->
                /\ dpc' = "returned"
                /\ dresult' = PReturned(TRUE)
                /\ dfailed' = FALSE
                /\ dfirst' = dfirst
         [] pass = "completed" ->
                /\ dpc' = "returned"
                /\ dresult' = PReturned(TRUE)
                /\ dfirst' = (IF dfirst = 0 THEN dchecks + 1 ELSE dfirst)
                /\ dfailed' = FALSE
         [] pass = "failed" ->
                /\ dpc' = "returned"
                /\ dresult' = PReturned(TRUE)
                /\ dfailed' = TRUE
                /\ dfirst' = dfirst
         [] pass = "wait" ->
                /\ dpc' = "wait"
                /\ dfailed' = FALSE
                /\ UNCHANGED <<dresult, dfirst>>

\* the rest of a pass of the loop body once apiCall has settled: the poller
\* returns, or starts to wait for the interval timer
DashOnPass(pass) ==
    /\ dchecks' = dchecks + 1
    /\ dfo' = FNone
    /\ CASE pass = "caught" ->
                /\ dpc' = "returned"
                /\ dresult' = PReturned(TRUE)
                /\ dfailed' = FALSE
                /\ dfirst' = dfirst
         [] pass = "completed" ->
                /\ dpc' = "returned"
                /\ dresult' = PReturned(TRUE)
                /\ dfirst' = (IF dfirst = 0 THEN dchecks + 1 ELSE dfirst)
                /\ dfailed' = FALSE
         [] pass = "failed" ->
                /\ dpc' = "wait"
                /\ dfailed' = TRUE
                /\ UNCHANGED <<dresult, dfirst>>
         [] pass = "wait" ->
                /\ dpc' = "wait"
                /\ dfailed' = FALSE
                /\ UNCHANGED <<dresult, dfirst>>

\* fetchWithRetry settles inside apiCall: it threw and apiCall settles at
\* once, or it returned a response and apiCall starts to read the body.
\* The per-attempt timers of fetchWithRetry bound the time this step takes.
DashFetchDone ==
    /\ poller = "dashboard"
    /\ dpc = "check"
    /\ \E fo \in FetchOutcomes :
         IF fo.c = "throw"
         THEN \E pass \in DashPasses(fo) : DashOnPass(pass)
         ELSE /\ dpc' = "body"
              /\ dfo' = fo
              /\ UNCHANGED <<dchecks, dresult, dfirst, dfailed>>
    /\ UNCHANGED <<di, dwaits, cancelled, dstale, poller, execVars, genVars,
                   flowVars, uiVars>>

\* the body of the status response has been read (or the read failed):
\* apiCall settles. No timer runs while the body is read.
DashBodyDone ==
    /\ poller = "dashboard"
    /\ dpc = "body"
    /\ \E pass \in DashPasses(dfo) : DashOnPass(pass)
    /\ UNCHANGED <<di, dwaits, cancelled, dstale, poller, execVars, genVars,
                   flowVars, uiVars>>

\* DashWaitDone with the loop test i <= 60
DashWaitDoneOneMore ==
    /\ poller = "dashboard"
    /\ dpc = "wait"
    /\ dwaits' = dwaits + 1
    /\ di' = di + 1
    /\ IF di + 1 <= MaxIterations
       THEN /\ dpc' = "check"
            /\ dresult' = dresult
            /\ dstale' = (dstale \/ cancelled)
       ELSE /\ dpc' = "returned"
            /\ dresult' = PReturned(TRUE)
            /\ dstale' = dstale
    /\ UNCHANGED <<dchecks, dfirst, dfailed, dfo, cancelled, poller, execVars,
                   genVars, flowVars, uiVars>>

\* the interval timer fires: i++, the loop test, then the next status request
\* is issued or the loop is left for the fail-open return
DashWaitDone ==
    /\ poller = "dashboard"
    /\ dpc = "wait"
    /\ dwaits' = dwaits + 1
    /\ di' = di + 1
    /\ IF di + 1 < MaxIterations
       THEN /\ dpc' = "check"
            /\ dresult' = dresult
            /\ dstale' = (dstale \/ cancelled)
       ELSE /\ dpc' = "returned"
            /\ dresult' = PReturned(TRUE)
            /\ dstale' = dstale
    /\ UNCHANGED <<dchecks, dfirst, dfailed, dfo, cancelled, poller, execVars,
                   genVars, flowVars, uiVars>>

\* the effect's cleanup runs (tab change or unmount): cancelled = true
DashCancel ==
    /\ poller = "dashboard"
    /\ ~cancelled
    /\ cancelled' = TRUE
    /\ UNCHANGED <<dpc, di, dchecks, dwaits, dresult, dfirst, dfailed, dfo,
                   dstale, poller, execVars, genVars, flowVars, uiVars>>

(* PersonalizedGenerator: waitForGenerationCompletion *)

MaxWaitTime == 300000
PollInterval == 3000

\* how long one status request can take
FetchTimes == {0, SlowFetch}

\* what the poller's own fetch() can do: it is not wrapped by fetchWithRetry
RawFetchOutcomes == {FReturned(s) : s \in Statuses} \cup {FThrew(NetworkError)}

\* the try block of the loop body: TRUE when it reaches `return true`
GenCompleted(fo, body) ==
    /\ fo.c = "return"
    /\ ResponseOk(fo.status)
    /\ ResponseJson(body).c = "return"
    /\ ResponseJson(body).v.j = "object"
    /\ ResponseJson(body).v.completed

\* the try block of the loop body: TRUE when the status check did not succeed
\* (fetch() threw, the answer is not ok, or reading the body threw)
GenFailed(fo, body) ==
    \/ fo.c = "throw"
    \/ ~ResponseOk(fo.status)
    \/ ResponseJson(body).c = "throw"
    \/ ResponseJson(body).v.j = "null"

GenPass(fo, body) ==
    IF GenCompleted(fo, body)
    THEN "completed"
    ELSE IF GenFailed(fo, body) THEN "failed" ELSE "wait"

\* the passes a status check ends with when fetch() did fo
GenPasses(fo) == {GenPass(fo, body) : body \in Bodies}

\* GenLoop returning true when the budget is spent
GenLoopFailOpen(now) ==
    IF now < MaxWaitTime
    THEN /\ gpc' = "check"
         /\ gresult' = gresult
    ELSE /\ gpc' = "returned"
         /\ gresult' = PReturned(TRUE)

\* the loop test and what follows it
GenLoop(now) ==
    IF now < MaxWaitTime
    THEN /\ gpc' = "check"
         /\ gresult' = gresult
    ELSE /\ gpc' = "thrown"
         /\ gresult' = PThrew(Err("Error", <<"Generation process timed out">>))

\* the rest of a pass of the loop body once the status check has ended, t ms
\* after it was started
GenOnPass(pass, t) ==
    /\ gchecks' = gchecks + 1
    /\ gnow' = gnow + t
    /\ gfo' = FNone
    /\ CASE pass = "completed" ->
                /\ gpc' = "returned"
                /\ gresult' = PReturned(TRUE)
                /\ gfirst' = (IF gfirst = 0 THEN gchecks + 1 ELSE gfirst)
                /\ gfailed' = FALSE
         [] pass = "failed" ->
                /\ gpc' = "wait"
                /\ gfailed' = TRUE
                /\ UNCHANGED <<gresult, gfirst>>
         [] pass = "wait" ->
                /\ gpc' = "wait"
                /\ gfailed' = FALSE
                /\ UNCHANGED <<gresult, gfirst>>

\* fetch() settles: it threw or the answer is not ok and the pass ends, or
\* the answer is ok and the poller starts to read the body. No timer runs
\* while fetch() is pending.
GenFetchDone ==
    /\ poller = "generator"
    /\ gpc = "check"
    /\ \E fo \in RawFetchOutcomes :
         IF fo.c = "throw" \/ ~ResponseOk(fo.status)
         THEN \E pass \in GenPasses(fo), t \in FetchTimes : GenOnPass(pass, t)
         ELSE /\ gpc' = "body"
              /\ gfo' = fo
              /\ UNCHANGED <<gnow, gchecks, gresult, gfirst, gfailed>>
    /\ UNCHANGED <<gwaits, poller, execVars, dashVars, flowVars, uiVars>>

\* the body of the status response has been read (or the read failed). No
\* timer runs while the body is read.
GenBodyDone ==
    /\ poller = "generator"
    /\ gpc = "body"
    /\ \E pass \in GenPasses(gfo), t \in FetchTimes : GenOnPass(pass, t)
    /\ UNCHANGED <<gwaits, poller, execVars, dashVars, flowVars, uiVars>>

\* the interval timer fires, then the loop test
GenWaitDone ==
    /\ poller = "generator"
    /\ gpc = "wait"
    /\ gwaits' = gwaits + 1
    /\ gnow' = gnow + PollInterval
    /\ GenLoop(gnow + PollInterval)
    /\ UNCHANGED <<gchecks, gfirst, gfailed, gfo, poller, execVars, dashVars,
                   flowVars, uiVars>>

----------------------------------------------------------------------------
(* PersonalizedGenerator: generatePersonalizedContent.                     *)

GenIdle ==
    /\ gpc = "off" /\ gnow = 0 /\ gchecks = 0 /\ gwaits = 0
    /\ gresult = PPending /\ gfirst = 0 /\ gfailed = FALSE /\ gfo = FNone

\* how a request of the flow ends, from what fetch() did and the body:
\* "abort" (the flow's timer aborted it), "threw" (fetch() rejected), "notok",
\* "badbody" (json() threw), "null" or "object" (what json() returned)
FlowClass(fo, body) ==
    IF fo.c = "throw"
    THEN (IF fo.error.name = "AbortError" THEN "abort" ELSE "threw")
    ELSE IF ~ResponseOk(fo.status)
    THEN "notok"
    ELSE IF ResponseJson(body).c = "throw"
    THEN "badbody"
    ELSE ResponseJson(body).v.j

\* the requests that carry the signal of the flow's AbortController
SignalClasses ==
    {FlowClass(fo, body) :
        fo \in RawFetchOutcomes \cup {FThrew(AbortError)}, body \in Bodies}

\* the requests that carry no signal
PlainClasses == {FlowClass(fo, body) : fo \in RawFetchOutcomes, body \in Bodies}

\* FlowCatch without the finally block
FlowCatchNoFinally(error) ==
    /\ toasts' = Append(toasts, IF error = "abort"
                                THEN "Generation Timeout"
                                ELSE "Generation Failed")
    /\ isGenerating' = isGenerating
    /\ cpc' = "done"

\* the outer catch and the finally block
FlowCatch(error) ==
    /\ toasts' = Append(toasts, IF error = "abort"
                                THEN "Generation Timeout"
                                ELSE "Generation Failed")
    /\ isGenerating' = FALSE
    /\ cpc' = "done"

\* the button is pressed: the three gates, setIsGenerating(true) and the
\* upload request
GenerateClick ==
    /\ cpc = "idle"
    /\ IF ~canGenerate
       THEN /\ toasts' = Append(toasts, "Missing Information")
            /\ cpc' = "done"
            /\ UNCHANGED <<isGenerating, wasGenerating, reqs>>
       ELSE IF ~user
       THEN /\ toasts' = Append(toasts, "Authentication Required")
            /\ cpc' = "done"
            /\ UNCHANGED <<isGenerating, wasGenerating, reqs>>
       ELSE IF ~uploadedFile
       THEN /\ toasts' = Append(toasts, "File Required")
            /\ cpc' = "done"
            /\ UNCHANGED <<isGenerating, wasGenerating, reqs>>
       ELSE /\ isGenerating' = TRUE
            /\ wasGenerating' = TRUE
            /\ reqs' = Append(reqs, "POST /upload-curriculum/")
            /\ cpc' = "upload"
            /\ toasts' = toasts
    /\ UNCHANGED <<canGenerate, user, uploadedFile, outcomes, generateResult,
                   polled, content, execVars, pollVars, uiVars>>

\* POST /upload-curriculum/ ends
UploadDone ==
    /\ cpc = "upload"
    /\ \E class \in SignalClasses :
         /\ outcomes' = Append(outcomes, class)
         /\ IF class \in {"null", "object"}
            THEN /\ toasts' = Append(toasts, "Upload Successful")
                 /\ reqs' = Append(reqs, "POST /generate-content/")
                 /\ cpc' = "generate"
                 /\ isGenerating' = isGenerating
            ELSE /\ FlowCatch(class)
                 /\ reqs' = reqs
    /\ UNCHANGED <<canGenerate, user, uploadedFile, generateResult, polled,
                   content, wasGenerating, execVars, pollVars, uiVars>>

\* POST /generate-content/ ends; on success waitForGenerationCompletion is
\* called and issues its first status request
GenerateDone ==
    /\ cpc = "generate"
    /\ \E class \in SignalClasses :
         /\ outcomes' = Append(outcomes, class)
         /\ IF class \in {"null", "object"}
            THEN /\ generateResult' = class
                 /\ cpc' = "polling"
                 /\ gpc' = "check"
                 /\ UNCHANGED <<toasts, isGenerating>>
            ELSE /\ FlowCatch(class)
                 /\ generateResult' = generateResult
                 /\ gpc' = gpc
    /\ UNCHANGED <<canGenerate, user, uploadedFile, reqs, polled, content,
                   wasGenerating, execVars, poller, dashVars, gnow, gchecks,
                   gwaits, gresult, gfirst, gfailed, gfo, uiVars>>

\* waitForGenerationCompletion has settled: the flow issues POST
\* /courses/create, or the poller threw and the outer catch runs
PollingDone ==
    /\ cpc = "polling"
    /\ gpc \in {"returned", "thrown"}
    /\ IF gpc = "returned"
       THEN /\ polled' = "completed"
            /\ reqs' = Append(reqs, "POST /courses/create")
            /\ cpc' = "course"
            /\ UNCHANGED <<toasts, isGenerating>>
       ELSE /\ polled' = "timed out"
            /\ FlowCatch("threw")
            /\ reqs' = reqs
    /\ gpc' = "off" /\ gnow' = 0 /\ gchecks' = 0 /\ gwaits' = 0
    /\ gresult' = PPending /\ gfirst' = 0 /\ gfailed' = FALSE /\ gfo' = FNone
    /\ UNCHANGED <<canGenerate, user, uploadedFile, outcomes, generateResult,
                   content, wasGenerating, execVars, poller, dashVars, uiVars>>

\* POST /courses/create ends, in its own try/catch; then the preview request
CourseDone ==
    /\ cpc = "course"
    /\ \E class \in PlainClasses : outcomes' = Append(outcomes, class)
    /\ reqs' = Append(reqs, "GET /course-material/preview")
    /\ cpc' = "preview"
    /\ UNCHANGED <<canGenerate, user, uploadedFile, isGenerating, toasts,
                   generateResult, polled, content, wasGenerating, execVars,
                   pollVars, uiVars>>

\* GET /course-material/preview ends, in its own try/catch; then the success
\* toast, whose description reads generateResult.total_files
PreviewDone ==
    /\ cpc = "preview"
    /\ \E class \in PlainClasses :
         /\ outcomes' = Append(outcomes, class)
         /\ content' = (CASE class = "object" -> "preview"
                          [] class = "notok" /\ generateResult = "object" ->
                                 "summary with files"
                          [] OTHER -> "summary")
    /\ IF generateResult = "null"
       THEN FlowCatch("threw")
       ELSE /\ toasts' = Append(toasts, "Content Generated Successfully!")
            /\ isGenerating' = FALSE
            /\ cpc' = "done"
    /\ UNCHANGED <<canGenerate, user, uploadedFile, reqs, generateResult,
                   polled, wasGenerating, execVars, pollVars, uiVars>>

----------------------------------------------------------------------------
(* Dashboard: the effect on [active], fetchFiles and the tab buttons. Every *)
(* run of the effect is a session with its own `cancelled` and its own      *)
(* `active`. The loop of a session's waitForGeneration is the one modelled  *)
(* above; here a session only waits for it to return.                       *)

TabKey == {"course-material", "quizzes", "ppts", "flashcards"}

\* the most runs of the effect in one behaviour
MaxSessions == 3

JsNull == [t |-> "null", s |-> <<>>]

\* the initial value [] of a tab's list
EmptyList == [tab |-> "", session |-> 0]
\* filesData: the files of the answer to session k's GET /files/t ([] when
\* the answer has none)
FilesData(t, k) == [tab |-> t, session |-> k]

NewSession(t) ==
    [tab |-> t, cancelled |-> FALSE, pc |-> "polling", listings |-> 0,
     returned |-> FALSE, cancelledAtReturn |-> FALSE]

\* the cleanup of the effect: cancelled = true in the session that runs
Cleanup(ss) ==
    IF ss = <<>>
    THEN ss
    ELSE [ss EXCEPT ![Len(ss)].cancelled = TRUE]

\* what fetchFiles reads of the settlement of its apiCall: whether it threw,
\* and response.success and response.error
ListingView(r) ==
    IF r.c = "throw"
    THEN [c |-> "throw", success |-> FALSE, error |-> Undefined, thrown |-> r.v]
    ELSE [c |-> "return", success |-> r.v.success, error |-> r.v.error,
          thrown |-> ThrownUndefined]

\* what apiCall can settle with for GET /files/{tab}
ListingResults ==
    {ListingView(ApiCall(fo, body)) : fo \in FetchOutcomes, body \in Bodies}

\* `Failed to load ${active} files`
FailedToLoad(t) == Str(<<"Failed to load ", t, " files">>)

\* a tab button is pressed: setActive(t)
SetActive(t) ==
    /\ mounted
    /\ ~pendingEffect
    /\ t # active
    /\ Len(sessions) < MaxSessions
    /\ active' = t
    /\ pendingEffect' = TRUE
    /\ UNCHANGED <<mounted, sessions, files, loading, uiError, waiting,
                   execVars, pollVars, flowVars>>

\* the effect runs for the new active: the cleanup of the previous run, then
\* fetchFiles() up to its first await
RunEffect ==
    /\ mounted
    /\ pendingEffect
    /\ pendingEffect' = FALSE
    /\ sessions' = Append(Cleanup(sessions), NewSession(active))
    /\ waiting' = TRUE
    /\ UNCHANGED <<active, mounted, files, loading, uiError, execVars,
                   pollVars, flowVars>>

\* the component is unmounted: the cleanup of the last run
Unmount ==
    /\ mounted
    /\ mounted' = FALSE
    /\ pendingEffect' = FALSE
    /\ sessions' = Cleanup(sessions)
    /\ UNCHANGED <<active, files, loading, uiError, waiting, execVars,
                   pollVars, flowVars>>

\* DashPollerReturns without the test `if (cancelled) return`
DashPollerReturnsIgnoresCancel(k) ==
    /\ k \in 1 .. Len(sessions)
    /\ sessions[k].pc = "polling"
    /\ sessions' = [sessions EXCEPT ![k].pc = "listing",
                                    ![k].listings = @ + 1,
                                    ![k].returned = TRUE,
                                    ![k].cancelledAtReturn =
                                        sessions[k].cancelled]
    /\ waiting' = FALSE
    /\ loading' = TRUE
    /\ uiError' = JsNull
    /\ UNCHANGED <<active, mounted, pendingEffect, files, execVars, pollVars,
                   flowVars>>

\* session k's waitForGeneration returns true, having observed completion or
\* exhausted its iterations: the test of cancelled, then the three state
\* updates and GET /files/{active}
DashPollerReturns(k) ==
    /\ k \in 1 .. Len(sessions)
    /\ sessions[k].pc = "polling"
    /\ IF sessions[k].cancelled
       THEN /\ sessions' = [sessions EXCEPT ![k].pc = "done",
                                            ![k].returned = TRUE,
                                            ![k].cancelledAtReturn = TRUE]
            /\ UNCHANGED <<waiting, loading, uiError>>
       ELSE /\ sessions' = [sessions EXCEPT ![k].pc = "listing",
                                            ![k].listings = @ + 1,
                                            ![k].returned = TRUE]
            /\ waiting' = FALSE
            /\ loading' = TRUE
            /\ uiError' = JsNull
    /\ UNCHANGED <<active, mounted, pendingEffect, files, execVars, pollVars,
                   flowVars>>

\* DashStore without the tests of cancelled
DashStoreIgnoresCancel(k, r) ==
    /\ IF r.c = "throw"
       THEN /\ uiError' = (IF r.thrown.isError
                           THEN Str(r.thrown.message)
                           ELSE FailedToLoad(sessions[k].tab))
            /\ files' = files
       ELSE IF r.success
       THEN /\ files' = [files EXCEPT ![sessions[k].tab] =
                             FilesData(sessions[k].tab, k)]
            /\ uiError' = uiError
       ELSE /\ uiError' = Or(r.error, FailedToLoad(sessions[k].tab))
            /\ files' = files
    /\ loading' = FALSE

\* DashStore storing the list under the tab that is active when it arrives
DashStoreUnderActiveKey(k, r) ==
    IF sessions[k].cancelled
    THEN UNCHANGED <<files, uiError, loading>>
    ELSE /\ IF r.c = "throw"
            THEN /\ uiError' = (IF r.thrown.isError
                                THEN Str(r.thrown.message)
                                ELSE FailedToLoad(sessions[k].tab))
                 /\ files' = files
            ELSE IF r.success
            THEN /\ files' = [files EXCEPT ![active] =
                                  FilesData(sessions[k].tab, k)]
                 /\ uiError' = uiError
            ELSE /\ uiError' = Or(r.error, FailedToLoad(sessions[k].tab))
                 /\ files' = files
         /\ loading' = FALSE

\* what fetchFiles does with the settlement r of its apiCall: the try, the
\* catch and the finally block, each guarded by !cancelled
DashStore(k, r) ==
    IF sessions[k].cancelled
    THEN UNCHANGED <<files, uiError, loading>>
    ELSE /\ IF r.c = "throw"
            THEN /\ uiError' = (IF r.thrown.isError
                                THEN Str(r.thrown.message)
                                ELSE FailedToLoad(sessions[k].tab))
                 /\ files' = files
            ELSE IF r.success
            THEN /\ files' = [files EXCEPT ![sessions[k].tab] =
                                  FilesData(sessions[k].tab, k)]
                 /\ uiError' = uiError
            ELSE /\ uiError' = Or(r.error, FailedToLoad(sessions[k].tab))
                 /\ files' = files
         /\ loading' = FALSE

\* session k's GET /files/{active} settles
DashListingDone(k) ==
    /\ k \in 1 .. Len(sessions)
    /\ sessions[k].pc = "listing"
    /\ \E r \in ListingResults : DashStore(k, r)
    /\ sessions' = [sessions EXCEPT ![k].pc = "done"]
    /\ UNCHANGED <<active, mounted, pendingEffect, waiting, execVars,
                   pollVars, flowVars>>

----------------------------------------------------------------------------
(* Specifications.                                                         *)

ExecIdle(n) ==
    /\ maxRetries = n
    /\ attempt = 0
    /\ fpc = "init"
    /\ requests = 0
    /\ waits = <<>>
    /\ warnings = <<>>
    /\ lastError = ThrownUndefined
    /\ fout = FNone
    /\ hist = <<>>
    /\ timers = {}
    /\ apiResult = ApiPending
    /\ rbody = NoBody

DashIdle ==
    /\ dpc = "off" /\ di = 0 /\ dchecks = 0 /\ dwaits = 0
    /\ dresult = PPending /\ dfirst = 0 /\ dfailed = FALSE /\ dfo = FNone
    /\ cancelled = FALSE /\ dstale = FALSE

PollersOff ==
    /\ poller = "none"
    /\ DashIdle
    /\ GenIdle

FlowIdle ==
    /\ cpc = "idle"
    /\ isGenerating = FALSE
    /\ wasGenerating = FALSE
    /\ toasts = <<>>
    /\ reqs = <<>>
    /\ outcomes = <<>>
    /\ generateResult = "none"
    /\ polled = "none"
    /\ content = "none"

FlowOff ==
    /\ canGenerate = FALSE /\ user = FALSE /\ uploadedFile = FALSE
    /\ FlowIdle

\* the Dashboard's state at its first render
UiInitial ==
    /\ active = "course-material"
    /\ files = [t \in TabKey |-> EmptyList]
    /\ loading = FALSE
    /\ uiError = JsNull
    /\ waiting = TRUE

\* the Dashboard is not rendered
UiOff ==
    /\ UiInitial
    /\ mounted = FALSE
    /\ pendingEffect = FALSE
    /\ sessions = <<>>

\* one call of apiCall, for every maxRetries up to MaxN
Init ==
    /\ \E n \in -1 .. MaxN : ExecIdle(n)
    /\ PollersOff
    /\ FlowOff
    /\ UiOff

Next ==
    \/ Call
    \/ \E status \in Statuses : Respond(status)
    \/ NetworkFault
    \/ Timeout
    \/ BackoffDone
    \/ \E body \in Bodies : ApiReturn(body)

Spec == Init /\ [][Next]_vars

\* the steps that a timer of fetchWithRetry brings about, and the first pass
\* of the loop: a pending fetch() is ended by the timeout timer of its attempt
\* at the latest, a backoff wait by its own timer
FetchFairness ==
    /\ WF_vars(Call)
    /\ WF_vars(Timeout)
    /\ WF_vars(BackoffDone)

SpecFair == Init /\ [][Next]_vars /\ FetchFairness

\* one polling session of either poller, just called
InitPoll ==
    /\ ExecIdle(DefaultMaxRetries)
    /\ FlowOff
    /\ UiOff
    /\ poller \in {"dashboard", "generator"}
    /\ dpc = (IF poller = "dashboard" THEN "check" ELSE "off")
    /\ di = 0 /\ dchecks = 0 /\ dwaits = 0
    /\ dresult = PPending /\ dfirst = 0 /\ dfailed = FALSE /\ dfo = FNone
    /\ cancelled = FALSE /\ dstale = FALSE
    /\ gpc = (IF poller = "generator" THEN "check" ELSE "off")
    /\ gnow = 0 /\ gchecks = 0 /\ gwaits = 0
    /\ gresult = PPending /\ gfirst = 0 /\ gfailed = FALSE /\ gfo = FNone

NextPoll ==
    \/ DashFetchDone
    \/ DashBodyDone
    \/ DashWaitDone
    \/ DashCancel
    \/ GenFetchDone
    \/ GenBodyDone
    \/ GenWaitDone

SpecPoll == InitPoll /\ [][NextPoll]_vars

\* the steps that a timer of the program brings about: the interval timers
\* of the pollers, and the per-attempt timeout of fetchWithRetry, which ends
\* every wait for the response of a status request of the Dashboard. The
\* steps that only the backend brings about carry no fairness.
PollFairness ==
    /\ WF_vars(DashFetchDone)
    /\ WF_vars(DashWaitDone)
    /\ WF_vars(GenWaitDone)

SpecPollFair == InitPoll /\ [][NextPoll]_vars /\ PollFairness

\* one press of the Generate button, for every state of the form
InitFlow ==
    /\ ExecIdle(DefaultMaxRetries)
    /\ poller = "generator"
    /\ DashIdle
    /\ GenIdle
    /\ canGenerate \in BOOLEAN /\ user \in BOOLEAN /\ uploadedFile \in BOOLEAN
    /\ FlowIdle
    /\ UiOff

NextFlow ==
    \/ GenerateClick
    \/ UploadDone
    \/ GenerateDone
    \/ GenFetchDone
    \/ GenBodyDone
    \/ GenWaitDone
    \/ PollingDone
    \/ CourseDone
    \/ PreviewDone

SpecFlow == InitFlow /\ [][NextFlow]_vars

\* the Dashboard after its first render: the effect has run once
InitDash ==
    /\ ExecIdle(DefaultMaxRetries)
    /\ PollersOff
    /\ FlowOff
    /\ UiInitial
    /\ mounted = TRUE
    /\ pendingEffect = FALSE
    /\ sessions = <<NewSession("course-material")>>

NextDash ==
    \/ \E t \in TabKey : SetActive(t)
    \/ RunEffect
    \/ Unmount
    \/ \E k \in 1 .. MaxSessions : DashPollerReturns(k)
    \/ \E k \in 1 .. MaxSessions : DashListingDone(k)

SpecDash == InitDash /\ [][NextDash]_vars

----------------------------------------------------------------------------
(* Properties of fetchWithRetry.                                           *)

Finished == fpc \in {"returned", "thrown"}

Is5xx(h) == h.kind = "response" /\ h.status >= 500 /\ h.status <= 599
Is4xx(h) == h.kind = "response" /\ h.status >= 400 /\ h.status <= 499
Is2xx(h) == h.kind = "response" /\ h.status >= 200 /\ h.status <= 299

AllAttempts5xx == \A i \in 1 .. Len(hist) : Is5xx(hist[i])

\* C1: for every maxRetries = N >= 1, a call whose attempts all receive a 5xx
\* response never returns a response, issues at most N requests, and after
\* the N-th 5xx it has thrown, having issued exactly N requests.
C1_All5xxMakesNAttemptsThenThrows ==
    (maxRetries >= 1 /\ AllAttempts5xx) =>
        /\ fpc # "returned"
        /\ requests <= maxRetries
        /\ Len(hist) <= maxRetries
        /\ (fpc = "thrown" => requests = maxRetries /\ Len(hist) = maxRetries
                              /\ fout.c = "throw")
        /\ (Len(hist) = maxRetries => fpc = "thrown")

C1_Witness ==
    /\ maxRetries = 4
    /\ Len(hist) = 4
    /\ AllAttempts5xx
    /\ fpc = "thrown"
    /\ requests = 4

\* C2: an attempt that receives a 4xx response is the last one: the call has
\* returned that very response, the requests issued number that attempt, and
\* the only backoff waits are those taken before it (none for attempt 1).
C2_ClientErrorReturnedAtOnce ==
    \A i \in 1 .. Len(hist) :
        Is4xx(hist[i]) =>
            /\ i = Len(hist)
            /\ fpc = "returned"
            /\ fout = FReturned(hist[i].status)
            /\ requests = i
            /\ Len(waits) = i - 1
            /\ Len(warnings) = i - 1

C2_Witness ==
    /\ maxRetries = 5
    /\ Len(hist) = 1
    /\ Is4xx(hist[1])
    /\ apiResult.state = "resolved"
    /\ requests = 1
    /\ waits = <<>>

\* C3: an attempt that receives a 2xx response is the last one: the call has
\* returned that very response and no request follows; on the first attempt
\* that is one request and no backoff wait.
C3_SuccessReturnedAtOnce ==
    \A i \in 1 .. Len(hist) :
        Is2xx(hist[i]) =>
            /\ i = Len(hist)
            /\ fpc = "returned"
            /\ fout = FReturned(hist[i].status)
            /\ requests = i
            /\ Len(waits) = i - 1

C3_Witness ==
    /\ maxRetries = 3
    /\ Len(hist) = 1
    /\ Is2xx(hist[1])
    /\ apiResult.state = "resolved"
    /\ requests = 1
    /\ waits = <<>>

\* C4: the i-th backoff wait, the one taken before attempt k = i + 1, is
\* min(1000 * 2^(k-2), 5000), and an attempt k in flight has been preceded
\* by exactly k - 1 waits.
C4_BackoffBeforeAttemptK ==
    /\ \A i \in 1 .. Len(waits) :
           LET k == i + 1
           IN  /\ waits[i] = (IF 1000 * 2 ^ (k - 2) < 5000
                              THEN 1000 * 2 ^ (k - 2) ELSE 5000)
               /\ (k = 2 => waits[i] = 1000)
               /\ (k = 3 => waits[i] = 2000)
               /\ (k = 4 => waits[i] = 4000)
               /\ (k >= 5 => waits[i] = 5000)
    /\ (fpc = "fetching" => Len(waits) = attempt - 1 /\ attempt <= maxRetries)

C4_Witness ==
    /\ fpc = "fetching"
    /\ attempt = 6
    /\ waits = <<1000, 2000, 4000, 5000, 5000>>

\* C5: an attempt on which the timeout expires is the last one: the call has
\* thrown Error('Request timeout'), and neither a backoff wait nor a request
\* follows it, whatever maxRetries is.
C5_TimeoutFailsAtOnce ==
    \A i \in 1 .. Len(hist) :
        hist[i].kind = "timeout" =>
            /\ i = Len(hist)
            /\ fpc = "thrown"
            /\ fout = FThrew(Err("Error", <<"Request timeout">>))
            /\ requests = i
            /\ Len(waits) = i - 1

C5_Witness ==
    /\ maxRetries = 4
    /\ Len(hist) = 2
    /\ hist[2].kind = "timeout"
    /\ fpc = "thrown"
    /\ requests = 2

----------------------------------------------------------------------------
(* Properties of apiCall.                                                  *)

\* C6: the promise of apiCall is never rejected, whatever fetchWithRetry did
\* and whatever reading the body did: once settled it is resolved with a
\* value whose success field is a boolean.
C6_ApiCallNeverRejects ==
    /\ apiResult.state # "rejected"
    /\ (apiResult.state = "resolved" => apiResult.value.success \in BOOLEAN)

\* a 2xx response whose body cannot be read: the read throws, apiCall resolves
C6_Witness ==
    /\ apiResult.state = "resolved"
    /\ fout.c = "return"
    /\ fout.status = 200
    /\ apiResult.value.success = FALSE
    /\ apiResult.value.error = Str(<<"network error">>)

\* C7: every value apiCall resolves with is {success: true, data} without an
\* error, or {success: false, error} with an error that is a string and
\* without data.
C7_ResultIsSuccessOrErrorString ==
    apiResult.state = "resolved" =>
        LET r == apiResult.value
        IN  \/ r.success /\ r.hasData /\ ~r.hasError
            \/ ~r.success /\ r.hasError /\ ~r.hasData /\ r.error.t = "string"

----------------------------------------------------------------------------
(* Properties of the completion pollers.                                   *)

DashExhausted == dpc \in {"returned", "thrown"} /\ dfirst = 0
GenExhausted == gpc \in {"returned", "thrown"} /\ gfirst = 0

\* C8 as stated: in both pollers, a session that ends without having observed
\* completion resolves with true.
C8_BothPollersFailOpen ==
    /\ (DashExhausted => dresult = PReturned(TRUE))
    /\ (GenExhausted => gresult = PReturned(TRUE))

\* C8 as amended: waitForGeneration never throws and returns true whether
\* completion was observed or the budget ran out; waitForGenerationCompletion
\* returns true only after an observed completion, and when its wait budget
\* runs out it throws Error('Generation process timed out').
C8_DashboardFailsOpenGeneratorThrows ==
    /\ dpc # "thrown"
    /\ (dpc = "returned" => dresult = PReturned(TRUE))
    /\ (di >= MaxIterations => dpc = "returned")
    /\ (gpc = "returned" => gfirst # 0 /\ gresult = PReturned(TRUE))
    /\ (GenExhausted =>
            /\ gpc = "thrown"
            /\ gnow >= MaxWaitTime
            /\ gresult = PThrew(Err("Error", <<"Generation process timed out">>)))

C8_Witness ==
    /\ poller = "generator"
    /\ GenExhausted
    /\ gpc = "thrown"
    /\ gchecks > 1

\* C9: a waitForGeneration run in which no status check reports completion
\* ends only after exactly 60 status checks, and then with true; no run
\* performs more than 60 checks.
C9_DashboardChecksSixtyTimes ==
    /\ dchecks <= 60
    /\ (DashExhausted => dchecks = 60 /\ dresult = PReturned(TRUE))
    /\ (dfirst = 0 /\ dchecks = 60 /\ dpc # "wait" => dpc = "returned")

C9_Witness ==
    /\ poller = "dashboard"
    /\ dpc = "returned"
    /\ dfirst = 0
    /\ dchecks = 60
    /\ dresult = PReturned(TRUE)

\* C10: once the k-th status check is the first to report completion, the
\* poller has returned true and its counts stay at k checks and k - 1 waits:
\* neither a check nor a wait follows.
C10_ReturnsRightAfterFirstCompletion ==
    /\ (dfirst # 0 =>
            /\ dpc = "returned" /\ dresult = PReturned(TRUE)
            /\ dchecks = dfirst /\ dwaits = dfirst - 1
            /\ dfirst <= MaxIterations)
    /\ (gfirst # 0 =>
            /\ gpc = "returned" /\ gresult = PReturned(TRUE)
            /\ gchecks = gfirst /\ gwaits = gfirst - 1)

C10_Witness ==
    /\ poller = "generator"
    /\ gfirst = 3
    /\ gchecks = 3
    /\ gwaits = 2
    /\ gpc = "returned"

\* C11: a failed status check does not end the polling session of either
\* poller: while budget remains the session is still running after it (it
\* waits, then performs the next check, one wait per check), and a session
\* whose latest check failed has ended only with its budget spent.
C11_FailedCheckDoesNotEndPolling ==
    /\ (dfailed /\ dchecks < MaxIterations => dpc \in {"wait", "check", "body"})
    /\ (dfailed /\ dpc \in {"check", "body"} => dwaits = dchecks)
    /\ (dfailed /\ dpc = "returned" => dchecks = MaxIterations)
    /\ (gfailed /\ gnow < MaxWaitTime => gpc \in {"wait", "check", "body"})
    /\ (gfailed /\ gpc \in {"check", "body"} => gwaits = gchecks)
    /\ (gfailed => gpc # "returned")

C11_Witness ==
    /\ poller = "dashboard"
    /\ dfailed
    /\ dchecks = 2
    /\ dwaits = 2
    /\ dpc = "check"

\* C12: every polling session eventually terminates, whatever the backend
\* does: the poller returns or throws.
C12_EverySessionTerminates ==
    <>(dpc \in {"returned", "thrown"} \/ gpc \in {"returned", "thrown"})

\* C13: a Dashboard polling session that has been marked cancelled issues no
\* further GET /generation/status request.
C13_NoStatusRequestAfterCancel == ~dstale

----------------------------------------------------------------------------
(* Properties of apiCall's error reporting.                                *)

Settled == apiResult.state # "pending"

\* apiCall has settled on a response that is not ok
SettledOnErrorResponse == Settled /\ fout.c = "return" /\ ~Is2xx(hist[Len(hist)])

\* a field of an error body that is present and not the empty string
NonEmpty(v) == v # Undefined /\ v # Str(<<>>)

C15_JsonErrorBodyDetailThenMessage ==
    (SettledOnErrorResponse /\ rbody.kind = "json" /\ rbody.json.j = "object") =>
        /\ apiResult.state = "resolved"
        /\ apiResult.value.success = FALSE
        /\ apiResult.value.error =
             (IF NonEmpty(rbody.json.detail)
              THEN rbody.json.detail
              ELSE IF NonEmpty(rbody.json.message)
              THEN rbody.json.message
              ELSE StatusLine(fout.status))

C15_Witness ==
    /\ SettledOnErrorResponse
    /\ fout.status = 404
    /\ rbody = JsonBody(JsonObject(Str(<<>>), Str(<<"message text">>), FALSE))
    /\ apiResult.value = ApiFailure(Str(<<"message text">>))

\* the error that the catch block receives for a retryable outcome
RetryableError(h) ==
    IF h.kind = "network" THEN NetworkError ELSE ServerError(h.status)

Retryable(h) ==
    \/ h.kind = "network"
    \/ (h.kind = "response" /\ ~Is2xx(h) /\ ~Is4xx(h))

\* the last permitted attempt has failed retryably
LastAttemptFailed ==
    /\ maxRetries >= 1
    /\ Len(hist) = maxRetries
    /\ Retryable(hist[Len(hist)])

\* C16: when the last permitted attempt fails retryably, fetchWithRetry throws
\* the error of that attempt, and apiCall resolves with success false and that
\* error's message as error.
C16_LastErrorThrownAndReported ==
    LastAttemptFailed =>
        /\ fpc = "thrown"
        /\ fout = FThrew(RetryableError(hist[Len(hist)]))
        /\ (Settled =>
                /\ apiResult.state = "resolved"
                /\ apiResult.value =
                     ApiFailure(Str(RetryableError(hist[Len(hist)]).message)))

C16_Witness ==
    /\ maxRetries = 2
    /\ hist = <<GotNetworkFault, GotResponse(500)>>
    /\ Settled
    /\ apiResult.value = ApiFailure(Str(ServerErrorMessage(500)))

----------------------------------------------------------------------------
(* Properties of the retry loop.                                           *)

\* every outcome so far is a 2xx, 4xx or 5xx response, a network fault or a
\* timeout
OutcomesInScope ==
    \A i \in 1 .. Len(hist) :
        hist[i].kind = "response" => Is2xx(hist[i]) \/ Is4xx(hist[i]) \/ Is5xx(hist[i])

\* the requests number between 1 and maxRetries, and every attempt that was
\* followed by another one ended in a 5xx response or a network fault
BoundedRetries ==
    (maxRetries >= 1 /\ OutcomesInScope) =>
        /\ (fpc # "init" => requests >= 1 /\ requests <= maxRetries)
        /\ requests = attempt
        /\ Len(hist) <= requests
        /\ \A i \in 1 .. Len(hist) :
              i < requests => Is5xx(hist[i]) \/ hist[i].kind = "network"

\* C18: with maxRetries = N >= 1 and outcomes that are 2xx, 4xx, 5xx, network
\* faults or timeouts, fetchWithRetry issues between 1 and N requests, starts
\* a new attempt only after a 5xx or a network fault, and always ends.
C18_BoundedRetriesAndTermination == []BoundedRetries /\ <>Finished

C18_Witness ==
    /\ maxRetries = 3
    /\ requests = 3
    /\ Len(hist) = 3
    /\ Is5xx(hist[1])
    /\ hist[2].kind = "network"
    /\ Is4xx(hist[3])
    /\ fpc = "returned"

\* C19: every pending request has the timer of its own attempt armed, a
\* request is only ever aborted by the timer of its own attempt, and the
\* timers left over from earlier attempts are those of attempts that ended
\* in a network fault.
C19_OwnTimerAndControllerPerAttempt ==
    /\ (fpc = "fetching" => attempt \in timers)
    /\ \A i \in 1 .. Len(hist) : hist[i].kind = "timeout" => hist[i].timer = i
    /\ \A k \in timers :
          /\ k <= attempt
          /\ (k < attempt \/ fpc # "fetching" => hist[k].kind = "network")

\* the timer left by attempt 1 has fired while the request of attempt 2 was
\* pending, and that request went on to receive a response
C19_Witness ==
    /\ Len(hist) = 2
    /\ hist[1].kind = "network"
    /\ hist[2].kind = "response"
    /\ 1 \notin timers

\* C20: one warning per failed attempt that was followed by a retry, carrying
\* that attempt's number, maxRetries and the failure message, and no other
\* warning; after N failing retryable attempts there are N - 1 warnings.
C20_OneWarningPerRetriedAttempt ==
    /\ Len(warnings) = (IF requests = 0 THEN 0 ELSE requests - 1)
    /\ \A i \in 1 .. Len(warnings) :
          /\ Retryable(hist[i])
          /\ warnings[i] = [attempt |-> i, maxRetries |-> maxRetries,
                            message |-> RetryableError(hist[i]).message]
    /\ (LastAttemptFailed /\ (\A i \in 1 .. Len(hist) : Retryable(hist[i])) =>
            Len(warnings) = maxRetries - 1)

C20_Witness ==
    /\ maxRetries = 3
    /\ fpc = "thrown"
    /\ hist = <<GotResponse(500), GotNetworkFault, GotResponse(500)>>
    /\ Len(warnings) = 2
    /\ warnings[2] = [attempt |-> 2, maxRetries |-> 3,
                      message |-> <<"Failed to fetch">>]

----------------------------------------------------------------------------
(* Properties of generatePersonalizedContent.                              *)

FailureToasts == {"Generation Failed", "Generation Timeout"}

\* polling reported completion and POST /courses/create then failed: fetch()
\* threw, the answer was not ok, or its body could not be parsed
CourseCreateFailed ==
    /\ polled = "completed"
    /\ Len(outcomes) >= 3
    /\ outcomes[3] \in {"threw", "notok", "badbody"}

PreviewRequested ==
    /\ Len(reqs) = 4
    /\ reqs[4] = "GET /course-material/preview"

SuccessToastOnly ==
    /\ \E i \in 1 .. Len(toasts) : toasts[i] = "Content Generated Successfully!"
    /\ \A i \in 1 .. Len(toasts) : toasts[i] \notin FailureToasts

\* C17: once polling has reported completion, a failed POST /courses/create
\* is followed by the preview request, and the flow ends with the success
\* toast and without a failure toast.
C17_CourseFailureNeverFailsFlow ==
    CourseCreateFailed =>
        /\ PreviewRequested
        /\ (cpc = "done" => SuccessToastOnly)

\* what does hold: the preview step follows a failed POST /courses/create,
\* and the flow then ends as it does after a successful one, with the success
\* toast unless generateResult is null
CourseFailureIsolated ==
    CourseCreateFailed =>
        /\ PreviewRequested
        /\ (cpc = "done" /\ generateResult = "object" => SuccessToastOnly)

----------------------------------------------------------------------------
(* Properties of the boundary cases of apiCall and fetchWithRetry.         *)

\* apiCall has settled on a 2xx response whose body json() could not read
SettledOnUnparsableSuccess ==
    /\ Settled
    /\ fout.c = "return"
    /\ Is2xx(hist[Len(hist)])
    /\ rbody.kind \in {"text", "broken"}

\* C21: a 2xx response whose body cannot be parsed as JSON is not retried:
\* apiCall resolves with success false and the parse error's message, no
\* request follows that response, and when it answered the first attempt the
\* call has made exactly one request.
C21_UnparsableSuccessNotRetried ==
    SettledOnUnparsableSuccess =>
        /\ apiResult.state = "resolved"
        /\ apiResult.value =
             ApiFailure(IF rbody.kind = "text"
                        THEN Str(<<"Unexpected token in JSON">>)
                        ELSE Str(<<"network error">>))
        /\ requests = Len(hist)
        /\ (Is2xx(hist[1]) => requests = 1)

C21_Witness ==
    /\ SettledOnUnparsableSuccess
    /\ maxRetries = 3
    /\ hist = <<GotResponse(200)>>
    /\ rbody = TextBody(<<"plain text">>)
    /\ requests = 1
    /\ apiResult.value.success = FALSE

\* C26: with maxRetries <= 0 no request is ever issued, fetchWithRetry throws
\* undefined, and apiCall resolves with success false and the error 'Unknown
\* error occurred'.
C26_NoAttemptThrowsUndefined ==
    maxRetries <= 0 =>
        /\ requests = 0
        /\ hist = <<>>
        /\ fpc \in {"init", "thrown"}
        /\ (fpc = "thrown" => fout = FThrew(ThrownUndefined))
        /\ (Settled =>
                /\ apiResult.state = "resolved"
                /\ apiResult.value = ApiFailure(Str(<<"Unknown error occurred">>)))

C26_Witness ==
    /\ maxRetries = 0
    /\ fpc = "thrown"
    /\ requests = 0
    /\ Settled

\* a response that is neither 2xx nor 4xx
OtherStatus(h) == h.kind = "response" /\ ~Is2xx(h) /\ ~Is4xx(h)

\* C27: a response that is neither 2xx nor 4xx is never returned to the
\* caller; while attempts remain it is followed by the backoff wait of its
\* attempt and then by a retry, and on the last attempt it makes the call
\* throw 'Server error: <status> <statusText>'.
C27_OtherStatusesRetriedAsServerError ==
    /\ (fpc = "returned" => ~OtherStatus(hist[Len(hist)]))
    /\ \A i \in 1 .. Len(hist) :
          OtherStatus(hist[i]) =>
              IF i < maxRetries
              THEN /\ Len(waits) >= i
                   /\ waits[i] = BackoffDelay(i)
                   /\ (fpc = "backoff" /\ attempt = i) \/ requests > i
              ELSE /\ fpc = "thrown"
                   /\ fout = FThrew(Err("Error", ServerErrorMessage(hist[i].status)))

C27_Witness ==
    /\ maxRetries = 2
    /\ hist = <<GotResponse(302), GotResponse(302)>>
    /\ fpc = "thrown"
    /\ fout.error.message = <<"Server error: ", "302", " ", "Found">>
    /\ waits = <<1000>>

----------------------------------------------------------------------------
(* Properties of the order of generatePersonalizedContent's requests.      *)

FlowRequests ==
    <<"POST /upload-curriculum/", "POST /generate-content/",
      "POST /courses/create", "GET /course-material/preview">>

\* the request answered 2xx with a body that json() could read
Answered2xx(i) == Len(outcomes) >= i /\ outcomes[i] \in {"null", "object"}

PollingStarted == gpc # "off" \/ polled # "none"

\* C25: the requests are issued in the fixed order upload, generate, (status
\* polling,) courses/create, preview; none is issued unless the form is
\* complete, a user is signed in and a file is selected; each step starts
\* only after the one before it succeeded; and a flow that set isGenerating
\* and has ended has set it back to false.
C25_GatedOrderAndIsGeneratingReset ==
    /\ Len(reqs) <= 4
    /\ \A i \in 1 .. Len(reqs) : reqs[i] = FlowRequests[i]
    /\ (reqs # <<>> \/ PollingStarted \/ wasGenerating =>
            canGenerate /\ user /\ uploadedFile)
    /\ (Len(reqs) >= 2 => Answered2xx(1))
    /\ (PollingStarted => Len(reqs) >= 2 /\ Answered2xx(2))
    /\ (Len(reqs) >= 3 => polled = "completed")
    /\ (polled = "completed" => PollingStarted)
    /\ (cpc = "done" => ~isGenerating)
    /\ (isGenerating => wasGenerating)

C25_Witness ==
    /\ cpc = "done"
    /\ wasGenerating
    /\ ~isGenerating
    /\ reqs = FlowRequests
    /\ polled = "completed"
    /\ toasts = <<"Upload Successful", "Content Generated Successfully!">>

----------------------------------------------------------------------------
(* Properties of the Dashboard's sessions.                                 *)

Stale(k) == sessions[k].cancelled

\* C22: a session issues GET /files/{tab} only once its poller has returned,
\* at most once, and never when it was cancelled before the poller returned.
C22_ListingAfterPollerOnceUnlessCancelled ==
    \A k \in 1 .. Len(sessions) :
        /\ sessions[k].listings <= 1
        /\ (sessions[k].listings = 1 =>
                sessions[k].returned /\ ~sessions[k].cancelledAtReturn)
        /\ (sessions[k].cancelledAtReturn => sessions[k].listings = 0)
        /\ (sessions[k].pc = "polling" => sessions[k].listings = 0)
        /\ (sessions[k].pc = "listing" => sessions[k].listings = 1)

C22_Witness ==
    /\ Len(sessions) = 2
    /\ sessions[1].pc = "done"
    /\ sessions[1].cancelledAtReturn
    /\ sessions[1].listings = 0
    /\ sessions[2].pc = "done"
    /\ sessions[2].listings = 1

\* a step of a session that was already cancelled leaves the files, error,
\* loading and waiting state as they are
StaleStepWritesNothing ==
    \A k \in 1 .. Len(sessions) :
        Stale(k) /\ sessions'[k] # sessions[k] =>
            UNCHANGED <<files, uiError, loading, waiting>>

\* C23: once a session is cancelled, none of its later steps (its poller
\* returning, its file listing settling with a list or with an error) writes
\* to the files, error, loading or waiting state.
C23_CancelledSessionWritesNothing == [][StaleStepWritesNothing]_vars

\* session 1 set loading, was cancelled, and its listing has since settled
\* without resetting loading
C23_Witness ==
    /\ Len(sessions) = 2
    /\ Stale(1)
    /\ sessions[1].pc = "done"
    /\ sessions[1].listings = 1
    /\ sessions[2].pc = "polling"
    /\ loading = TRUE

\* every stored list is the answer to a GET /files/t of a session for tab t
ListsUnderOwnKey ==
    \A t \in TabKey :
        \/ files[t] = EmptyList
        \/ /\ files[t].tab = t
           /\ files[t].session \in 1 .. Len(sessions)
           /\ sessions[files[t].session].tab = t

\* a list is replaced only by a session for that tab that is not cancelled
OnlyLiveSessionStores ==
    \A t \in TabKey :
        files'[t] # files[t] =>
            /\ files'[t].session \in 1 .. Len(sessions)
            /\ ~Stale(files'[t].session)
            /\ sessions[files'[t].session].tab = t

\* C24: under every interleaving of tab switches and responses, files[t]
\* only ever holds the list returned to a GET /files/t of a session started
\* for tab t, and a stale session never replaces a stored list, that of the
\* active tab included.
C24_ListsKeyedByOwnTab == []ListsUnderOwnKey /\ [][OnlyLiveSessionStores]_vars

\* the tab of the stale session 1 is active again, its listing has settled,
\* and the list shown is the one session 3 fetched
C24_Witness ==
    /\ Len(sessions) = 3
    /\ sessions[1].tab = active
    /\ sessions[3].tab = active
    /\ Stale(1)
    /\ sessions[1].pc = "done"
    /\ sessions[1].listings = 1
    /\ sessions[3].pc = "done"
    /\ files[active] = FilesData(active, 3)

====
